---------------------------- MODULE Spec2Model ----------------------------
(***************************************************************************)
(* Chunked file upload (chunk-upload.go, main.go).                         *)
(*                                                                         *)
(* Text (file names, upload identifiers, the scalar form fields) is a      *)
(* sequence of one-character strings, so that formatting an integer,      *)
(* parsing one, and comparing names bytewise are computed, not assumed.    *)
(* File contents are run-length encoded byte strings: a sequence of runs   *)
(* [b |-> byte, n |-> count], in canonical form (no empty run, no two      *)
(* adjacent runs of the same byte), so that a payload longer than the      *)
(* 5 MiB cap is a value the model can hold.                                *)
(*                                                                         *)
(* The filesystem is the chunk root ./data/chunks (variable root) and the  *)
(* working directory (variable cwd).  Upload identifiers and destination   *)
(* file names are single path components; the identifier "." is one, and   *)
(* the kernel resolves <root>/. to the chunk root itself.                  *)
(*                                                                         *)
(* Spec runs the two HTTP handlers one call at a time, each call as one    *)
(* step.  SpecParse is the decoder alone and SpecSort the rebuilder on a   *)
(* chunk root that already holds files.  SpecConc runs two ProcessChunk    *)
(* calls and one CompleteChunk call concurrently, one system call per      *)
(* step; procs holds the position and the local variables of each.         *)
(***************************************************************************)
EXTENDS Integers, Sequences, FiniteSets, TLC

VARIABLES root, cwd, last, input, procs

vars == <<root, cwd, last, input, procs>>

---------------------------------------------------------------------------
(* Bounds of the model.                                                    *)

\* Most regular files the chunk root may hold in total (all directories).
MaxFiles == 2

---------------------------------------------------------------------------
(* Text.                                                                   *)

Digits == <<"0", "1", "2", "3", "4", "5", "6", "7", "8", "9">>

\* The digit characters, and the value of each.
DigitSet == {Digits[i] : i \in 1..10}

DigitMap == [c \in DigitSet |-> (CHOOSE i \in 1..10 : Digits[i] = c) - 1]

IsDigit(c) == c \in DigitSet

DigitVal(c) == DigitMap[c]

\* Byte values of the characters the model uses (ASCII).
CharCode(c) ==
    CASE c = "+" -> 43
      [] c = "-" -> 45
      [] c = "." -> 46
      [] IsDigit(c) -> 48 + DigitVal(c)
      [] c = "a" -> 97
      [] c = "b" -> 98
      [] c = "o" -> 111
      [] c = "x" -> 120
      [] c = "y" -> 121

\* Go's string comparison s < t: bytewise, a proper prefix is smaller.
RECURSIVE StrLess(_, _)
StrLess(s, t) ==
    IF t = <<>> THEN FALSE
    ELSE IF s = <<>> THEN TRUE
    ELSE IF CharCode(Head(s)) # CharCode(Head(t))
         THEN CharCode(Head(s)) < CharCode(Head(t))
    ELSE StrLess(Tail(s), Tail(t))

MaxInt32 == 2147483647

\* The decimal digits of a natural number, as fmt's %d prints them.
RECURSIVE FormatNat(_)
FormatNat(n) ==
    IF n < 10 THEN <<Digits[n + 1]>>
    ELSE FormatNat(n \div 10) \o <<Digits[(n % 10) + 1]>>

\* fmt.Sprintf("%d", n)
FormatInt(n) == IF n < 0 THEN <<"-">> \o FormatNat(-n) ELSE FormatNat(n)

\* The value of a run of decimal digits, most significant first.
RECURSIVE DigitsValue(_, _)
DigitsValue(s, acc) ==
    IF s = <<>> THEN acc
    ELSE DigitsValue(Tail(s), acc * 10 + DigitVal(Head(s)))

AllDigits(s) == \A i \in 1..Len(s) : IsDigit(s[i])

\* The part of s after an optional leading sign.
Unsigned(s) ==
    IF s # <<>> /\ Head(s) \in {"+", "-"} THEN Tail(s) ELSE s

IsNegative(s) == s # <<>> /\ Head(s) = "-"

\* strconv.ParseInt(s, 10, 32): [val, ok].  A syntax error (empty text, a
\* sign with no digit, a character that is no digit) and a value outside
\* the 32-bit range both give ok = FALSE.  The texts of the model are short
\* enough that the digit value itself never leaves TLC's integers.
ParseInt32(s) ==
    LET u == Unsigned(s)
        syntaxOK == u # <<>> /\ AllDigits(u)
        mag == IF syntaxOK THEN DigitsValue(u, 0) ELSE 0
        neg == IsNegative(s)
        inRange == IF neg THEN mag - 1 <= MaxInt32 ELSE mag <= MaxInt32
    IN  [val |-> IF syntaxOK /\ inRange THEN (IF neg THEN -mag ELSE mag) ELSE 0,
         ok  |-> syntaxOK /\ inRange]

\* strconv.ParseInt(s, 10, 64): the same syntax; texts of the model are far
\* shorter than the 19 digits a 64-bit range error needs.
ParseInt64(s) ==
    LET u == Unsigned(s)
        syntaxOK == u # <<>> /\ AllDigits(u)
        mag == IF syntaxOK THEN DigitsValue(u, 0) ELSE 0
    IN  [val |-> IF syntaxOK THEN (IF IsNegative(s) THEN -mag ELSE mag) ELSE 0,
         ok  |-> syntaxOK]

\* An Atoi that gives the lowest integer for a name that is no decimal
\* integer.
AtoiLowest(s) ==
    LET u == Unsigned(s)
    IN  IF u # <<>> /\ AllDigits(u)
        THEN (IF IsNegative(s) THEN -DigitsValue(u, 0) ELSE DigitsValue(u, 0))
        ELSE -MaxInt32 - 1

\* strconv.Atoi(s) with the error dropped, as ByChunk.Less uses it: a name
\* that is no decimal integer gives 0.
Atoi(s) ==
    LET u == Unsigned(s)
    IN  IF u # <<>> /\ AllDigits(u)
        THEN (IF IsNegative(s) THEN -DigitsValue(u, 0) ELSE DigitsValue(u, 0))
        ELSE 0

---------------------------------------------------------------------------
(* File contents: run-length encoded byte strings.                         *)

RECURSIVE CLen(_)
CLen(c) == IF c = <<>> THEN 0 ELSE Head(c).n + CLen(Tail(c))

\* Concatenation, kept canonical.
CCat(c, d) ==
    IF c = <<>> THEN d
    ELSE IF d = <<>> THEN c
    ELSE IF c[Len(c)].b = d[1].b
         THEN SubSeq(c, 1, Len(c) - 1)
              \o <<[b |-> d[1].b, n |-> c[Len(c)].n + d[1].n]>>
              \o Tail(d)
    ELSE c \o d

\* The first k bytes of c (all of c when it is shorter).
RECURSIVE CTake(_, _)
CTake(c, k) ==
    IF c = <<>> \/ k <= 0 THEN <<>>
    ELSE IF Head(c).n <= k
         THEN <<Head(c)>> \o CTake(Tail(c), k - Head(c).n)
    ELSE <<[b |-> Head(c).b, n |-> k]>>

\* c without its first k bytes.
RECURSIVE CDrop(_, _)
CDrop(c, k) ==
    IF c = <<>> THEN <<>>
    ELSE IF k <= 0 THEN c
    ELSE IF Head(c).n <= k THEN CDrop(Tail(c), k - Head(c).n)
    ELSE <<[b |-> Head(c).b, n |-> Head(c).n - k]>> \o Tail(c)

---------------------------------------------------------------------------
(* The filesystem.                                                         *)
(*                                                                         *)
(* root is the chunk root ./data/chunks: [exists, entries], entries a map  *)
(* from name to a node.  A node is a directory holding regular files       *)
(* (name -> contents) or a regular file.  A path below the chunk root is   *)
(* the sequence of its components after ./data/chunks.  cwd maps the names *)
(* of the working directory that the program touches to nodes.             *)

EmptyMap == [n \in {} |-> <<>>]

Put(m, k, v) == [n \in (DOMAIN m) \cup {k} |-> IF n = k THEN v ELSE m[n]]

Del(m, k) == [n \in (DOMAIN m) \ {k} |-> m[n]]

DirNode(files) == [kind |-> "dir", files |-> files, data |-> <<>>]

FileNode(data) == [kind |-> "file", files |-> EmptyMap, data |-> data]

NoRoot == [exists |-> FALSE, entries |-> EmptyMap]

Dot == <<".">>

\* Path resolution drops "." components.
Norm(p) == SelectSeq(p, LAMBDA c : c # Dot)

\* "none", "dir" or "file": what the path p names below the chunk root r.
NodeKind(r, p) ==
    LET q == Norm(p)
    IN  IF ~r.exists THEN "none"
        ELSE IF q = <<>> THEN "dir"
        ELSE IF q[1] \notin DOMAIN r.entries THEN "none"
        ELSE IF Len(q) = 1 THEN r.entries[q[1]].kind
        ELSE IF Len(q) = 2 /\ r.entries[q[1]].kind = "dir"
                /\ q[2] \in DOMAIN r.entries[q[1]].files THEN "file"
        ELSE "none"

\* The contents of the regular file at p.
FileData(r, p) ==
    LET q == Norm(p)
    IN  IF Len(q) = 1 THEN r.entries[q[1]].data
        ELSE r.entries[q[1]].files[q[2]]

\* The names in the directory at p.
DirNames(r, p) ==
    LET q == Norm(p)
    IN  IF q = <<>> THEN DOMAIN r.entries ELSE DOMAIN r.entries[q[1]].files

\* The regular file at p set to data (its directory exists).
WriteFile(r, p, data) ==
    LET q == Norm(p)
    IN  IF Len(q) = 1
        THEN [r EXCEPT !.entries = Put(r.entries, q[1], FileNode(data))]
        ELSE [r EXCEPT !.entries =
                 Put(r.entries, q[1],
                     DirNode(Put(r.entries[q[1]].files, q[2], data)))]

\* os.Create(p) can open the file: the parent is a directory and p itself
\* is no directory.
CanCreate(r, p) ==
    LET q == Norm(p)
    IN  /\ q # <<>>
        /\ NodeKind(r, SubSeq(q, 1, Len(q) - 1)) = "dir"
        /\ NodeKind(r, q) # "dir"

\* The number of regular files below the chunk root.
RECURSIVE SumFiles(_, _)
SumFiles(r, S) ==
    IF S = {} THEN 0
    ELSE LET k == CHOOSE x \in S : TRUE
         IN  (IF r.entries[k].kind = "file" THEN 1
              ELSE Cardinality(DOMAIN r.entries[k].files))
             + SumFiles(r, S \ {k})

NumFiles(r) == SumFiles(r, DOMAIN r.entries)

\* The names of the set S as a list in ascending bytewise order.
RECURSIVE SortedNames(_)
SortedNames(S) ==
    IF S = {} THEN <<>>
    ELSE LET x == CHOOSE y \in S : \A z \in S \ {y} : StrLess(z, y)
         IN  SortedNames(S \ {x}) \o <<x>>

\* ioutil.ReadDir(p): the entries of the directory, sorted by filename.
ReadDir(r, p) == SortedNames(DirNames(r, p))

---------------------------------------------------------------------------
(* Errors and the multipart request.                                       *)
(*                                                                         *)
(* An error value keeps what its message carries: kind, the field name the *)
(* message names (field), the form name found (got), the text strconv      *)
(* quotes (num) and the prefix a caller wrapped it with (wrap).            *)

Err(kind, field, got, num) ==
    [kind |-> kind, field |-> field, got |-> got, num |-> num, wrap |-> ""]

Nil == Err("nil", "", "", <<>>)

\* fmt.Errorf("<prefix> %w", err)
Wrap(prefix, err) == [err EXCEPT !.wrap = prefix]

\* A request body is [multipart, parts]; a part is [name, body], name its
\* form name ("" when it has none) and body its bytes: text for the scalar
\* fields, contents for the payload.
Part(name, body) == [name |-> name, body |-> body]

NoChunk ==
    [UploadID |-> <<>>, ChunkNumber |-> 0, TotalChunks |-> 0,
     TotalFileSize |-> 0, Filename |-> <<>>, Data |-> <<>>,
     UploadDir |-> <<>>]

\* The name check of getPart: the part read is the one expected.
NameMatches(found, expectedPart) == found = expectedPart

\* A getPart whose mismatch error names the two form names the wrong way
\* round.
getPartSwapped(expectedPart, parts, i) ==
    IF i > Len(parts)
    THEN [err |-> Err("read_part", expectedPart, "", <<>>), buf |-> <<>>]
    ELSE IF ~NameMatches(parts[i].name, expectedPart)
    THEN [err |-> Err("name_mismatch", parts[i].name, expectedPart, <<>>),
          buf |-> <<>>]
    ELSE [err |-> Nil, buf |-> parts[i].body]

\* getPart(expectedPart, reader, buf): read the next part, part number i of
\* the body, and copy it to buf.  [err, buf].
getPart(expectedPart, parts, i) ==
    IF i > Len(parts)
    THEN [err |-> Err("read_part", expectedPart, "", <<>>), buf |-> <<>>]
    ELSE IF ~NameMatches(parts[i].name, expectedPart)
    THEN [err |-> Err("name_mismatch", expectedPart, parts[i].name, <<>>),
          buf |-> <<>>]
    ELSE [err |-> Nil, buf |-> parts[i].body]

\* uploadDir, as a path below the chunk root: the chunk root itself.
uploadDir == <<>>

\* A staging path that leaves the upload identifier out.
UploadDirShared(uploadID) == uploadDir

\* fmt.Sprintf("%s/%s", uploadDir, uploadID)
UploadDirOf(uploadID) == uploadDir \o <<uploadID>>

ParseFail(err) == [err |-> err, chunk |-> NoChunk]

\* ParseChunk(r): [err, chunk].
ParseChunk(r) ==
    IF ~r.multipart THEN ParseFail(Err("not_multipart", "", "", <<>>))
    ELSE
    LET p1 == getPart("upload_id", r.parts, 1) IN
    IF p1.err # Nil THEN ParseFail(p1.err) ELSE
    LET p2 == getPart("chunk_number", r.parts, 2) IN
    IF p2.err # Nil THEN ParseFail(p2.err) ELSE
    LET n2 == ParseInt32(p2.buf) IN
    IF ~n2.ok THEN ParseFail(Err("parse_int", "", "", p2.buf)) ELSE
    LET p3 == getPart("total_chunks", r.parts, 3) IN
    IF p3.err # Nil THEN ParseFail(p3.err) ELSE
    LET n3 == ParseInt32(p3.buf) IN
    IF ~n3.ok THEN ParseFail(Err("parse_int", "", "", p3.buf)) ELSE
    LET p4 == getPart("total_file_size", r.parts, 4) IN
    IF p4.err # Nil THEN ParseFail(p4.err) ELSE
    LET n4 == ParseInt64(p4.buf) IN
    IF ~n4.ok THEN ParseFail(Err("parse_int", "", "", p4.buf)) ELSE
    LET p5 == getPart("file_name", r.parts, 5) IN
    IF p5.err # Nil THEN ParseFail(p5.err) ELSE
    IF Len(r.parts) < 6
    THEN ParseFail(Err("read_chunk_part", "chunk", "", <<>>))
    ELSE [err |-> Nil,
          chunk |-> [UploadID |-> p1.buf,
                     ChunkNumber |-> n2.val,
                     TotalChunks |-> n3.val,
                     TotalFileSize |-> n4.val,
                     Filename |-> p5.buf,
                     Data |-> r.parts[6].body,
                     UploadDir |-> UploadDirOf(p1.buf)]]

---------------------------------------------------------------------------
(* Storing a chunk.                                                        *)

maxChunkSize == 5242880

\* A copy with no cap: everything src holds is written.
CopyUncapped(src, n, failAfter) == [written |-> src, err |-> "nil"]

\* io.CopyN(dst, src, n): [written, err].  "EOF" when src ends before n
\* bytes, "nil" when n bytes were copied.  failAfter >= 0 is an I/O error
\* of the environment after that many bytes, if the copy gets that far.
CopyN(src, n, failAfter) ==
    LET want == IF CLen(src) < n THEN CLen(src) ELSE n
    IN  IF failAfter >= 0 /\ failAfter < want
        THEN [written |-> CTake(src, failAfter), err |-> "io"]
        ELSE [written |-> CTake(src, n),
              err |-> IF CLen(src) < n THEN "EOF" ELSE "nil"]

\* A chunk path that leaves the chunk number out: every chunk of an
\* upload goes to the same file.
ChunkPathShared(chunk) == chunk.UploadDir \o <<FormatInt(0)>>

\* fmt.Sprintf("%s/%d", chunk.UploadDir, chunk.ChunkNumber)
ChunkPath(chunk) == chunk.UploadDir \o <<FormatInt(chunk.ChunkNumber)>>

\* A StoreChunk that opens the chunk file without truncating it: what the
\* file held beyond the bytes written stays.
StoreChunkNoTrunc(r, chunk, failAfter) ==
    LET path == ChunkPath(chunk)
    IN  IF ~CanCreate(r, path)
        THEN [err |-> Err("create_chunk", "", "", <<>>), root |-> r,
              created |-> FALSE]
        ELSE LET cp == CopyN(chunk.Data, maxChunkSize, failAfter)
                 old == IF NodeKind(r, path) = "file"
                        THEN FileData(r, path) ELSE <<>>
             IN  [err |-> IF cp.err # "nil" /\ cp.err # "EOF"
                          THEN Err("copy_chunk", "", "", <<>>) ELSE Nil,
                  root |-> WriteFile(r, path,
                                     CCat(cp.written,
                                          CDrop(old, CLen(cp.written)))),
                  created |-> TRUE]

\* StoreChunk(chunk): [err, root, created].
StoreChunk(r, chunk, failAfter) ==
    LET path == ChunkPath(chunk)
    IN  IF ~CanCreate(r, path)
        THEN [err |-> Err("create_chunk", "", "", <<>>), root |-> r,
              created |-> FALSE]
        ELSE LET cp == CopyN(chunk.Data, maxChunkSize, failAfter)
             IN  [err |-> IF cp.err # "nil" /\ cp.err # "EOF"
                          THEN Err("copy_chunk", "", "", <<>>) ELSE Nil,
                  root |-> WriteFile(r, path, cp.written),
                  created |-> TRUE]

\* os.MkdirAll(name, 02750) in the working directory: [ok, cwd].
MkdirAll(c, name) ==
    IF name = Dot THEN [ok |-> TRUE, cwd |-> c]
    ELSE IF name \in DOMAIN c
    THEN [ok |-> c[name].kind = "dir", cwd |-> c]
    ELSE [ok |-> TRUE, cwd |-> Put(c, name, DirNode(EmptyMap))]

\* A ProcessChunk that makes the directory of the request before it looks
\* at the decoder's error.
ProcessParsedEager(r, c, p, failAfter) ==
    IF p.err # Nil
    THEN [err |-> Wrap("failed to parse chunk", p.err), root |-> r,
          cwd |-> MkdirAll(c, <<"a">>).cwd, chunk |-> NoChunk,
          parsed |-> FALSE, created |-> FALSE]
    ELSE
    LET m == MkdirAll(c, p.chunk.UploadID)
    IN  IF ~m.ok
        THEN [err |-> Err("mkdir", "", "", <<>>), root |-> r, cwd |-> c,
              chunk |-> p.chunk, parsed |-> TRUE, created |-> FALSE]
        ELSE
        LET st == StoreChunk(r, p.chunk, failAfter)
        IN  [err |-> st.err, root |-> st.root, cwd |-> m.cwd,
             chunk |-> p.chunk, parsed |-> TRUE, created |-> st.created]

\* ProcessChunk from the result p of ParseChunk on.
ProcessParsed(r, c, p, failAfter) ==
    IF p.err # Nil
    THEN [err |-> Wrap("failed to parse chunk", p.err), root |-> r,
          cwd |-> c, chunk |-> NoChunk, parsed |-> FALSE, created |-> FALSE]
    ELSE
    LET m == MkdirAll(c, p.chunk.UploadID)
    IN  IF ~m.ok
        THEN [err |-> Err("mkdir", "", "", <<>>), root |-> r, cwd |-> c,
              chunk |-> p.chunk, parsed |-> TRUE, created |-> FALSE]
        ELSE
        LET st == StoreChunk(r, p.chunk, failAfter)
        IN  [err |-> st.err, root |-> st.root, cwd |-> m.cwd,
             chunk |-> p.chunk, parsed |-> TRUE, created |-> st.created]

\* ProcessChunk(r): [err, root, cwd, chunk, parsed, created].
ProcessChunk(r, c, req, failAfter) ==
    ProcessParsed(r, c, ParseChunk(req), failAfter)

---------------------------------------------------------------------------
(* Rebuilding the file.                                                    *)

\* A Less that compares the names as strings.
LessLexical(ai, aj) == StrLess(ai, aj)

\* ByChunk.Less on two entry names.
Less(ai, aj) == Atoi(ai) < Atoi(aj)

\* One pass of the insertion sort: x sinks from the right end of the
\* sorted list s past every entry it is Less than.
RECURSIVE Sink(_, _)
Sink(s, x) ==
    IF s = <<>> THEN <<x>>
    ELSE IF Less(x, s[Len(s)])
         THEN Sink(SubSeq(s, 1, Len(s) - 1), x) \o <<s[Len(s)]>>
    ELSE s \o <<x>>

\* sort.Sort(ByChunk(fileInfos)): for the short lists of the model (at most
\* seven entries) sort.Sort is a plain insertion sort.
RECURSIVE SortByChunk(_)
SortByChunk(fileInfos) ==
    IF fileInfos = <<>> THEN <<>>
    ELSE Sink(SortByChunk(SubSeq(fileInfos, 1, Len(fileInfos) - 1)),
              fileInfos[Len(fileInfos)])

\* The temporary file handle: its contents, the handle's file offset and
\* whether the handle is open.
NoTemp == [content |-> <<>>, offset |-> 0, open |-> FALSE]

NewTemp == [content |-> <<>>, offset |-> 0, open |-> TRUE]

\* Writing data through the handle at its offset (always the end here).
TempWrite(f, data) ==
    [f EXCEPT !.content = CCat(CTake(f.content, f.offset), data),
              !.offset = f.offset + CLen(data)]

\* Reading through the handle from its offset to the end of the file.
TempRead(f) == CDrop(f.content, f.offset)

\* appendChunk(uploadDir, fs, fullFile): [ok, fullFile].  Opening a
\* directory succeeds and reading it fails; ioFail is an I/O error of the
\* environment on this entry.
appendChunk(r, dir, name, fullFile, ioFail) ==
    IF NodeKind(r, dir \o <<name>>) # "file" \/ ioFail
    THEN [ok |-> FALSE, fullFile |-> fullFile]
    ELSE [ok |-> TRUE,
          fullFile |-> TempWrite(fullFile, FileData(r, dir \o <<name>>))]

\* The loop of RebuildFile over the sorted entries from entry i on:
\* [ok, fullFile, order], order the names appended so far.
RECURSIVE AppendAll(_, _, _, _, _, _, _)
AppendAll(r, dir, infos, i, fullFile, order, failIdx) ==
    IF i > Len(infos) THEN [ok |-> TRUE, fullFile |-> fullFile, order |-> order]
    ELSE LET a == appendChunk(r, dir, infos[i], fullFile, i = failIdx)
         IN  IF ~a.ok
             THEN [ok |-> FALSE, fullFile |-> a.fullFile, order |-> order]
             ELSE AppendAll(r, dir, infos, i + 1, a.fullFile,
                            order \o <<infos[i]>>, failIdx)

\* A cleanup that removes nothing.
RemoveNothing(r, p) == r

\* os.RemoveAll(p) below the chunk root.
RemoveAll(r, p) ==
    LET q == Norm(p)
    IN  IF q = <<>> THEN NoRoot
        ELSE IF Len(q) = 1 THEN [r EXCEPT !.entries = Del(r.entries, q[1])]
        ELSE r

\* An os.RemoveAll that fails part way: the entries in keep survive.
RemoveSome(r, keep) ==
    [r EXCEPT !.entries = [n \in (DOMAIN r.entries) \cap keep |-> r.entries[n]]]

\* No fault of the environment.
NoFault == [at |-> "none", idx |-> 0, keep |-> {}]

\* An error return that cleans the chunk root up on its way out.
RebuildFailCleaned(kind, r, f, listed, order) ==
    [err |-> Err(kind, "", "", <<>>), root |-> NoRoot, fullFile |-> f,
     listed |-> listed, order |-> order]

\* The error returns of RebuildFile: the chunk root is left as it is.
RebuildFail(kind, r, f, listed, order) ==
    [err |-> Err(kind, "", "", <<>>), root |-> r, fullFile |-> f,
     listed |-> listed, order |-> order]

\* A RebuildFile that leaves the cleanup to its caller: on success the
\* chunk root is still there.
RebuildAppendedKeep(r, ap, fault) ==
    IF ~ap.ok
    THEN RebuildFail("append", r, ap.fullFile, <<uploadDir>>, ap.order)
    ELSE IF fault.at = "removeall"
    THEN RebuildFail("removeall", RemoveSome(r, fault.keep),
                     ap.fullFile, <<uploadDir>>, ap.order)
    ELSE [err |-> Nil, root |-> r, fullFile |-> ap.fullFile,
          listed |-> <<uploadDir>>, order |-> ap.order]

\* RebuildFile from the result ap of its loop on.
RebuildAppended(r, ap, fault) ==
    IF ~ap.ok
    THEN RebuildFail("append", r, ap.fullFile, <<uploadDir>>, ap.order)
    ELSE IF fault.at = "removeall"
    THEN RebuildFail("removeall", RemoveSome(r, fault.keep),
                     ap.fullFile, <<uploadDir>>, ap.order)
    ELSE [err |-> Nil, root |-> RemoveAll(r, uploadDir),
          fullFile |-> ap.fullFile, listed |-> <<uploadDir>>,
          order |-> ap.order]

\* RebuildFile(dir): [err, root, fullFile, listed, order].  listed is the
\* directory whose entries were read, order the names appended.
RebuildFile(r, dir, fault) ==
    IF NodeKind(r, uploadDir) # "dir"
    THEN RebuildFail("readdir", r, NoTemp, <<>>, <<>>)
    ELSE IF fault.at = "tempfile"
    THEN RebuildFail("tempfile", r, NoTemp, <<uploadDir>>, <<>>)
    ELSE RebuildAppended(
             r,
             AppendAll(r, uploadDir, SortByChunk(ReadDir(r, uploadDir)), 1,
                       NewTemp, <<>>,
                       IF fault.at = "append" THEN fault.idx ELSE 0),
             fault)

\* os.Create(filename) in the working directory can open the file.
CanCreateDest(c, filename) ==
    ~(filename = Dot \/ (filename \in DOMAIN c /\ c[filename].kind = "dir"))

\* CompleteChunk from the result rb of RebuildFile on.
CompleteRebuilt(c, rb, filename, fault) ==
    IF rb.err # Nil
    THEN [err |-> Wrap("failed to rebuild file", rb.err), root |-> rb.root,
          cwd |-> c, fullFile |-> rb.fullFile, listed |-> rb.listed,
          order |-> rb.order]
    ELSE IF ~CanCreateDest(c, filename) \/ fault.at = "create"
    THEN [err |-> Wrap("failed creating file",
                       Err("create_dest", "", "", <<>>)),
          root |-> rb.root, cwd |-> c,
          fullFile |-> [rb.fullFile EXCEPT !.open = FALSE],
          listed |-> rb.listed, order |-> rb.order]
    ELSE IF fault.at = "copy"
    THEN [err |-> Wrap("failed copying file contents",
                       Err("copy_dest", "", "", <<>>)),
          root |-> rb.root, cwd |-> Put(c, filename, FileNode(<<>>)),
          fullFile |-> [rb.fullFile EXCEPT !.open = FALSE],
          listed |-> rb.listed, order |-> rb.order]
    ELSE [err |-> Nil, root |-> rb.root,
          cwd |-> Put(c, filename, FileNode(TempRead(rb.fullFile))),
          fullFile |-> [rb.fullFile EXCEPT !.open = FALSE],
          listed |-> rb.listed, order |-> rb.order]

\* CompleteChunk(uploadID, filename):
\* [err, root, cwd, fullFile, listed, order].
CompleteChunk(r, c, uploadID, filename, fault) ==
    CompleteRebuilt(c, RebuildFile(r, UploadDirOf(uploadID), fault),
                    filename, fault)

---------------------------------------------------------------------------
(* The inputs of the model.                                                *)

UploadIDs == {<<"a">>, Dot}

\* Destination file names; "a" is also the directory ProcessChunk makes in
\* the working directory for the upload identifier "a".
Filenames == {<<"o">>, <<"a">>}

\* Texts of the chunk_number field that parse: "01" is chunk 1 again.
ChunkTexts == {<<"1">>, <<"2">>, <<"1", "0">>, <<"0", "1">>}

\* Payloads: one byte, and one byte more than the cap.
Payloads ==
    {<<[b |-> "x", n |-> 1]>>,
     <<[b |-> "y", n |-> maxChunkSize], [b |-> "x", n |-> 1]>>}

FieldOrder ==
    <<"upload_id", "chunk_number", "total_chunks", "total_file_size",
      "file_name", "">>

\* The six parts of a chunk request, in the mandated order.
ChunkParts(id, text, payload) ==
    <<Part("upload_id", id), Part("chunk_number", text),
      Part("total_chunks", <<"2">>), Part("total_file_size", <<"3">>),
      Part("file_name", <<"o">>), Part("", payload)>>

ChunkRequest(id, text, payload) ==
    [multipart |-> TRUE, parts |-> ChunkParts(id, text, payload)]

\* The list s with the elements at i and j exchanged.
SwapAt(s, i, j) ==
    [k \in 1..Len(s) |-> IF k = i THEN s[j] ELSE IF k = j THEN s[i] ELSE s[k]]

\* Requests that do not decode: no multipart body, two parts exchanged, a
\* chunk number that is no integer, and a body that ends after five parts.
BadRequests ==
    LET ps == ChunkParts(<<"a">>, <<"1">>, <<[b |-> "x", n |-> 1]>>)
    IN  {[multipart |-> FALSE, parts |-> <<>>],
         [multipart |-> TRUE, parts |-> SwapAt(ps, 2, 3)],
         [multipart |-> TRUE,
          parts |-> ChunkParts(<<"a">>, <<"x">>, <<[b |-> "x", n |-> 1]>>)],
         [multipart |-> TRUE, parts |-> SubSeq(ps, 1, 5)]}

Requests ==
    {ChunkRequest(id, t, p) : id \in UploadIDs, t \in ChunkTexts, p \in Payloads}
    \cup BadRequests

\* I/O errors of the environment while a chunk is copied: none (-1), or
\* one that strikes before the first byte is written.
FailAfters == {-1, 0}

\* Faults of the environment during a completion, on the chunk root r.  A
\* failed os.RemoveAll has removed every entry and not the directory, or
\* nothing.
Faults(r) ==
    {NoFault}
    \cup {[at |-> k, idx |-> 0, keep |-> {}] : k \in {"tempfile", "create", "copy"}}
    \cup {[at |-> "append", idx |-> i, keep |-> {}] :
              i \in 1..Cardinality(DOMAIN r.entries)}
    \cup {[at |-> "removeall", idx |-> 0, keep |-> K] :
              K \in {{}, DOMAIN r.entries}}

---------------------------------------------------------------------------
(* The state machine: one action per HTTP handler.                         *)

\* What the last handler call did: the core operation it ran, the HTTP
\* status it answered, the error returned, and for ProcessChunk the decoded
\* identifier, chunk number and payload, for CompleteChunk its arguments,
\* the fault the environment injected, the directories listed, the names
\* appended and the temporary file; old is what the chunk file held when
\* ProcessChunk was called (empty when there was none).
NoCall ==
    [op |-> "none", status |-> 0, err |-> Nil, id |-> <<>>,
     parsed |-> FALSE, created |-> FALSE, number |-> 0, payload |-> <<>>,
     filename |-> <<>>, fault |-> "none", listed |-> <<>>, order |-> <<>>,
     fullFile |-> NoTemp, old |-> <<>>]

NoInput == [multipart |-> FALSE, parts |-> <<>>]

\* A ProcessChunk call that has not started: its position, the decoded
\* chunk, the error it returned, the bytes of the payload written so far
\* and whether the chunk file it opened is still the file at its path.
StoreProc ==
    [pc |-> "start", chunk |-> NoChunk, parsed |-> FALSE, err |-> Nil,
     off |-> 0, linked |-> FALSE]

\* A CompleteChunk call that has not started: its position, its arguments,
\* fileInfos after the sort, the names appended, the temporary file and
\* the error returned.
CompleteProc ==
    [pc |-> "start", uploadID |-> <<>>, filename |-> <<>>, infos |-> <<>>,
     order |-> <<>>, fullFile |-> NoTemp, err |-> Nil]

Stores == {"s1", "s2"}

\* No call is in flight.
NoProcs ==
    [p \in Stores \cup {"c"} |-> IF p = "c" THEN CompleteProc ELSE StoreProc]

\* Before the server starts the chunk root is absent, or present with any
\* of the staging directories provisioned, empty; the working directory
\* holds none of the names the program uses.
Init ==
    /\ \/ root = NoRoot
       \/ \E S \in SUBSET (UploadIDs \ {Dot}) :
              root = [exists |-> TRUE,
                      entries |-> [n \in S |-> DirNode(EmptyMap)]]
    /\ cwd = EmptyMap
    /\ last = NoCall
    /\ input = NoInput
    /\ procs = NoProcs

\* handleUploadChunk: POST /upload-chunk.
handleUploadChunk ==
    \E req \in Requests, failAfter \in FailAfters :
        \E res \in {ProcessChunk(root, cwd, req, failAfter)} :
            /\ NumFiles(res.root) <= MaxFiles
            /\ failAfter >= 0 => res.created
            /\ root' = res.root
            /\ cwd' = res.cwd
            /\ last' = [NoCall EXCEPT
                          !.op = "ProcessChunk",
                          !.status = IF res.err = Nil THEN 200 ELSE 500,
                          !.err = res.err,
                          !.id = res.chunk.UploadID,
                          !.parsed = res.parsed,
                          !.created = res.created,
                          !.fault = IF failAfter >= 0 THEN "copy" ELSE "none",
                          !.number = res.chunk.ChunkNumber,
                          !.payload = res.chunk.Data,
                          !.old = IF res.parsed
                                     /\ NodeKind(root, ChunkPath(res.chunk)) = "file"
                                  THEN FileData(root, ChunkPath(res.chunk))
                                  ELSE <<>>]
            /\ UNCHANGED <<input, procs>>

\* handleCompletedChunk: POST /completed-chunks.  A body that is no JSON
\* object is answered 400 before CompleteChunk is called.
handleCompletedChunk ==
    \/ /\ last' = [NoCall EXCEPT !.op = "BadRequest", !.status = 400,
                                 !.err = Err("json", "", "", <<>>)]
       /\ UNCHANGED <<root, cwd, input, procs>>
    \/ \E uploadID \in UploadIDs, filename \in Filenames, fault \in Faults(root) :
        \E res \in {CompleteChunk(root, cwd, uploadID, filename, fault)} :
            /\ root' = res.root
            /\ cwd' = res.cwd
            /\ last' = [NoCall EXCEPT
                          !.op = "CompleteChunk",
                          !.status = IF res.err = Nil THEN 200 ELSE 500,
                          !.err = res.err,
                          !.id = uploadID,
                          !.filename = filename,
                          !.fault = fault.at,
                          !.listed = res.listed,
                          !.order = res.order,
                          !.fullFile = res.fullFile]
            /\ UNCHANGED <<input, procs>>

Next == handleUploadChunk \/ handleCompletedChunk

Spec == Init /\ [][Next]_vars

---------------------------------------------------------------------------
(* The decoder on its own: ParseChunk applied to one request body.         *)

\* The orders in which six parts can arrive.
Perms6 == {f \in [1..6 -> 1..6] : \A i, j \in 1..6 : i # j => f[i] # f[j]}

\* The parts ps in the order f.
Reorder(ps, f) == [i \in 1..6 |-> ps[f[i]]]

\* Request bodies for the decoder: the six parts of a chunk request in
\* every order, with a chunk number that parses and with one that does
\* not, and the bodies that are no chunk request at all.
ParseInputs ==
    {[multipart |-> TRUE, parts |-> Reorder(ps, f)] :
        f \in Perms6,
        ps \in {ChunkParts(<<"a">>, <<"0", "1">>, <<[b |-> "x", n |-> 1]>>),
                ChunkParts(Dot, <<"1", "0">>, <<[b |-> "y", n |-> 2]>>),
                ChunkParts(<<"a">>, <<"x">>, <<[b |-> "x", n |-> 1]>>)}}
    \cup BadRequests

InitParse ==
    /\ root = NoRoot
    /\ cwd = EmptyMap
    /\ last = NoCall
    /\ input \in ParseInputs
    /\ procs = NoProcs

\* ParseChunk(r) on the request drawn.
Decode ==
    /\ last.op = "none"
    /\ \E p \in {ParseChunk(input)} :
           last' = [NoCall EXCEPT
                      !.op = "ParseChunk",
                      !.err = p.err,
                      !.id = p.chunk.UploadID,
                      !.parsed = (p.err = Nil),
                      !.number = p.chunk.ChunkNumber,
                      !.payload = p.chunk.Data]
    /\ UNCHANGED <<root, cwd, input, procs>>

NextParse == Decode

SpecParse == InitParse /\ [][NextParse]_vars

---------------------------------------------------------------------------
(* The rebuilder on a chunk root that already holds files.                 *)

\* Names of regular files in the chunk root: decimal chunk indices as
\* StoreChunk writes them for the identifier "." (a negative one, zero,
\* positive ones), and names that are no decimal integer.
SortNames ==
    {<<"-", "1">>, <<"0">>, <<"1">>, <<"2">>, <<"1", "0">>, <<"x">>, <<"+">>}

\* The file named n holds as many bytes as n is long plus twice its first
\* character's code: no two of the names hold the same bytes.
SortData(n) == <<[b |-> "x", n |-> 2 * CharCode(n[1]) + Len(n)]>>

\* The chunk root holds any of the files; no handler has run yet.
InitSort ==
    /\ \E S \in SUBSET SortNames :
           root = [exists |-> TRUE,
                   entries |-> [n \in S |-> FileNode(SortData(n))]]
    /\ cwd = EmptyMap
    /\ last = NoCall
    /\ input = NoInput
    /\ procs = NoProcs

NextSort == handleCompletedChunk

SpecSort == InitSort /\ [][NextSort]_vars

---------------------------------------------------------------------------
(* Concurrent calls.  net/http serves every request on a goroutine of its  *)
(* own, so calls of the two handlers overlap; the code takes no lock.      *)
(* Each step below is one system call of a call in flight (decoding, which *)
(* touches no file, is one step).  Two ProcessChunk calls s1 and s2 and    *)
(* one CompleteChunk call c run once each; the environment injects no      *)
(* fault here.                                                             *)

\* Zero bytes: what a write beyond the end of a file leaves in between.
Pad(n) == IF n > 0 THEN <<[b |-> "NUL", n |-> n]>> ELSE <<>>

\* write(2) of data at offset off of a file that holds c.
WriteAt(c, off, data) ==
    CCat(CCat(CCat(CTake(c, off), Pad(off - CLen(c))), data),
         CDrop(c, off + CLen(data)))

\* The payload byte of each call: the bytes of s1 are x, those of s2 y.
ConcByte(p) == IF p = "s1" THEN "x" ELSE "y"

\* The requests of the call p: chunk 1 or 2 of either identifier with a
\* payload of one or two bytes, or a body that is no multipart body.
ConcRequests(p) ==
    {ChunkRequest(id, t, <<[b |-> ConcByte(p), n |-> k]>>) :
         id \in UploadIDs, t \in {<<"1">>, <<"2">>}, k \in {1, 2}}
    \cup {[multipart |-> FALSE, parts |-> <<>>]}

InitConc ==
    /\ \/ root = NoRoot
       \/ \E S \in SUBSET (UploadIDs \ {Dot}) :
              root = [exists |-> TRUE,
                      entries |-> [n \in S |-> DirNode(EmptyMap)]]
    /\ cwd = EmptyMap
    /\ last = NoCall
    /\ input = NoInput
    /\ procs = NoProcs

\* ProcessChunk: chunk, err := ParseChunk(r).
sParse(p) ==
    /\ procs[p].pc = "start"
    /\ \E req \in ConcRequests(p) :
         \E pr \in {ParseChunk(req)} :
           procs' = [procs EXCEPT ![p] =
                       IF pr.err # Nil
                       THEN [@ EXCEPT !.pc = "done",
                                      !.err = Wrap("failed to parse chunk",
                                                   pr.err)]
                       ELSE [@ EXCEPT !.pc = "mkdir", !.chunk = pr.chunk,
                                      !.parsed = TRUE]]
    /\ UNCHANGED <<root, cwd, last, input>>

\* ProcessChunk: os.MkdirAll(chunk.UploadID, 02750).
sMkdir(p) ==
    /\ procs[p].pc = "mkdir"
    /\ \E m \in {MkdirAll(cwd, procs[p].chunk.UploadID)} :
         /\ cwd' = m.cwd
         /\ procs' = [procs EXCEPT ![p] =
                        IF m.ok THEN [@ EXCEPT !.pc = "create"]
                        ELSE [@ EXCEPT !.pc = "done",
                                       !.err = Err("mkdir", "", "", <<>>)]]
    /\ UNCHANGED <<root, last, input>>

\* StoreChunk: os.Create of the chunk file, which creates it empty or
\* truncates the file that is there.
sCreate(p) ==
    /\ procs[p].pc = "create"
    /\ \E path \in {ChunkPath(procs[p].chunk)} :
         IF CanCreate(root, path)
         THEN /\ root' = WriteFile(root, path, <<>>)
              /\ procs' = [procs EXCEPT ![p] =
                             [@ EXCEPT !.pc = "copy", !.off = 0,
                                       !.linked = TRUE]]
         ELSE /\ root' = root
              /\ procs' = [procs EXCEPT ![p] =
                             [@ EXCEPT !.pc = "done",
                                       !.err = Err("create_chunk", "", "",
                                                   <<>>)]]
    /\ UNCHANGED <<cwd, last, input>>

\* StoreChunk: io.CopyN writes the next piece of the payload, of whatever
\* size the request body delivered, at the handle's offset; after the last
\* piece StoreChunk and ProcessChunk return nil.  A file that was removed
\* while the handle is open takes the write and is seen by nobody.
sCopy(p) ==
    /\ procs[p].pc = "copy"
    /\ \E path \in {ChunkPath(procs[p].chunk)},
          rest \in {CDrop(CTake(procs[p].chunk.Data, maxChunkSize),
                         procs[p].off)} :
         IF rest = <<>>
         THEN /\ root' = root
              /\ procs' = [procs EXCEPT ![p] = [@ EXCEPT !.pc = "done"]]
         ELSE \E k \in 1..CLen(rest) :
                /\ root' = IF procs[p].linked
                           THEN WriteFile(root, path,
                                          WriteAt(FileData(root, path),
                                                  procs[p].off,
                                                  CTake(rest, k)))
                           ELSE root
                /\ procs' = [procs EXCEPT ![p] =
                               [@ EXCEPT !.off = @ + k,
                                         !.pc = IF k = CLen(rest)
                                                THEN "done" ELSE "copy"]]
    /\ UNCHANGED <<cwd, last, input>>

\* RebuildFile: ioutil.ReadDir(uploadDir), and the sort of what it read.
cList ==
    /\ procs["c"].pc = "start"
    /\ \E uploadID \in UploadIDs, filename \in Filenames :
         procs' = [procs EXCEPT !["c"] =
                     IF NodeKind(root, uploadDir) # "dir"
                     THEN [@ EXCEPT !.pc = "done", !.uploadID = uploadID,
                                    !.filename = filename,
                                    !.err = Wrap("failed to rebuild file",
                                                 Err("readdir", "", "", <<>>))]
                     ELSE [@ EXCEPT !.pc = "temp", !.uploadID = uploadID,
                                    !.filename = filename,
                                    !.infos = SortByChunk(
                                                  ReadDir(root, uploadDir))]]
    /\ UNCHANGED <<root, cwd, last, input>>

\* RebuildFile: ioutil.TempFile.
cTemp ==
    /\ procs["c"].pc = "temp"
    /\ procs' = [procs EXCEPT !["c"] =
                   [@ EXCEPT !.fullFile = NewTemp,
                             !.pc = IF procs["c"].infos = <<>>
                                    THEN "remove" ELSE "append"]]
    /\ UNCHANGED <<root, cwd, last, input>>

\* RebuildFile: appendChunk of the next entry of fileInfos, read as the
\* file is now.
cAppend ==
    /\ procs["c"].pc = "append"
    /\ \E i \in {Len(procs["c"].order) + 1} :
         \E a \in {appendChunk(root, uploadDir, procs["c"].infos[i],
                               procs["c"].fullFile, FALSE)} :
           procs' = [procs EXCEPT !["c"] =
                       IF ~a.ok
                       THEN [@ EXCEPT !.pc = "done",
                                      !.err = Wrap("failed to rebuild file",
                                                   Err("append", "", "", <<>>))]
                       ELSE [@ EXCEPT !.fullFile = a.fullFile,
                                      !.order = @ \o <<procs["c"].infos[i]>>,
                                      !.pc = IF i = Len(procs["c"].infos)
                                             THEN "remove" ELSE "append"]]
    /\ UNCHANGED <<root, cwd, last, input>>

\* The handles to chunk files that are still the file at their path in r.
Relinked(r) ==
    [p \in DOMAIN procs |->
        IF p \in Stores
        THEN [procs[p] EXCEPT
                !.linked = @ /\ NodeKind(r, ChunkPath(procs[p].chunk)) = "file"]
        ELSE procs[p]]

\* A cleanup that removes the entries RebuildFile appended and nothing
\* else.
cRemoveAppended ==
    /\ procs["c"].pc = "remove"
    /\ \E r \in {RemoveSome(root,
                          DOMAIN root.entries
                              \ {procs["c"].order[i] :
                                     i \in 1..Len(procs["c"].order)})} :
         /\ root' = r
         /\ procs' = [Relinked(r) EXCEPT !["c"] = [@ EXCEPT !.pc = "create"]]
    /\ UNCHANGED <<cwd, last, input>>

\* RebuildFile: os.RemoveAll(uploadDir); RebuildFile returns fullFile.
cRemove ==
    /\ procs["c"].pc = "remove"
    /\ \E r \in {RemoveAll(root, uploadDir)} :
         /\ root' = r
         /\ procs' = [Relinked(r) EXCEPT !["c"] = [@ EXCEPT !.pc = "create"]]
    /\ UNCHANGED <<cwd, last, input>>

\* CompleteChunk: os.Create(filename).
cCreate ==
    /\ procs["c"].pc = "create"
    /\ IF CanCreateDest(cwd, procs["c"].filename)
       THEN /\ cwd' = Put(cwd, procs["c"].filename, FileNode(<<>>))
            /\ procs' = [procs EXCEPT !["c"] = [@ EXCEPT !.pc = "copy"]]
       ELSE /\ cwd' = cwd
            /\ procs' = [procs EXCEPT !["c"] =
                           [@ EXCEPT !.pc = "done",
                                     !.fullFile = [@ EXCEPT !.open = FALSE],
                                     !.err = Wrap("failed creating file",
                                                  Err("create_dest", "", "",
                                                      <<>>))]]
    /\ UNCHANGED <<root, last, input>>

\* CompleteChunk: io.Copy(newFile, f), the deferred Close calls and the
\* return.
cCopy ==
    /\ procs["c"].pc = "copy"
    /\ cwd' = Put(cwd, procs["c"].filename,
                  FileNode(TempRead(procs["c"].fullFile)))
    /\ procs' = [procs EXCEPT !["c"] =
                   [@ EXCEPT !.pc = "done",
                             !.fullFile = [@ EXCEPT !.open = FALSE]]]
    /\ UNCHANGED <<root, last, input>>

NextConc ==
    \/ \E p \in Stores : sParse(p)
    \/ \E p \in Stores : sMkdir(p)
    \/ \E p \in Stores : sCreate(p)
    \/ \E p \in Stores : sCopy(p)
    \/ cList
    \/ cTemp
    \/ cAppend
    \/ cRemove
    \/ cCreate
    \/ cCopy

SpecConc == InitConc /\ [][NextConc]_vars

---------------------------------------------------------------------------
(* Vocabulary of the properties.                                           *)

\* The staging directory of an upload identifier: <chunk root>/<id>.
StagingDir(id) == <<id>>

\* The names of the chunk files staged under id.
Staged(r, id) ==
    IF NodeKind(r, StagingDir(id)) # "dir" THEN {}
    ELSE {n \in DirNames(r, StagingDir(id)) :
              NodeKind(r, StagingDir(id) \o <<n>>) = "file"}

\* The staged chunk files of id with their contents.
StagedFiles(r, id) ==
    [n \in Staged(r, id) |-> FileData(r, StagingDir(id) \o <<n>>)]

\* The staging directory of id holds chunk files and nothing else.
OnlyChunks(r, id) ==
    /\ NodeKind(r, StagingDir(id)) = "dir"
    /\ Staged(r, id) = DirNames(r, StagingDir(id))

\* The contents of the files named by the list names in dir, concatenated.
RECURSIVE ConcatFiles(_, _, _)
ConcatFiles(r, dir, names) ==
    IF names = <<>> THEN <<>>
    ELSE CCat(FileData(r, dir \o <<Head(names)>>),
              ConcatFiles(r, dir, Tail(names)))

\* The chunk indices first..first+n-1 as file names, in index order.
IndexNames(first, n) == [i \in 1..n |-> FormatInt(first + i - 1)]

SeqRange(s) == {s[i] : i \in 1..Len(s)}

\* The position of x in the list s.
Pos(s, x) == CHOOSE i \in 1..Len(s) : s[i] = x

\* A step of CompleteChunk, of ProcessChunk.
CompleteStep == last'.op = "CompleteChunk"

ProcessStep == last'.op = "ProcessChunk"

---------------------------------------------------------------------------
(* Properties.                                                             *)

\* C1: round trip.  When the staging directory of an upload identifier
\* holds exactly the chunks first..first+n-1 of a file (first 0 or 1, each
\* chunk within the cap) and nothing else, a CompleteChunk for that
\* identifier that meets no fault of the environment and names a
\* destination that can be created returns success and leaves in the
\* destination the chunks' bytes concatenated in index order.
C1_RoundTrip ==
    [][\A first \in {0, 1} :
          LET id == last'.id
              n == Cardinality(Staged(root, id))
              names == IndexNames(first, n)
          IN  (/\ CompleteStep
               /\ last'.fault = "none"
               /\ OnlyChunks(root, id)
               /\ n >= 1
               /\ Staged(root, id) = SeqRange(names)
               /\ \A c \in Staged(root, id) :
                      CLen(StagedFiles(root, id)[c]) <= maxChunkSize
               /\ CanCreateDest(cwd, last'.filename))
              => /\ last'.err = Nil
                 /\ last'.filename \in DOMAIN cwd'
                 /\ cwd'[last'.filename].kind = "file"
                 /\ cwd'[last'.filename].data
                      = ConcatFiles(root, StagingDir(id), names)]_vars

\* C2: every run of RebuildFile appends the files it read in ascending
\* numeric order of their names: of two appended files named by the
\* decimal forms of i < j, the one named i comes first, and the temporary
\* file holds the files' bytes in that order.
C2_NumericOrder ==
    [][CompleteStep =>
          /\ \A a, b \in 1..Len(last'.order) :
                 (\E i, j \in -1..10 :
                      /\ i < j
                      /\ last'.order[a] = FormatInt(i)
                      /\ last'.order[b] = FormatInt(j))
                 => a < b
          /\ last'.fullFile.content = ConcatFiles(root, uploadDir, last'.order)
          /\ (last'.listed # <<>> /\ last'.err.kind \notin {"tempfile", "append"})
                 => SeqRange(last'.order) = DirNames(root, uploadDir)]_vars

\* A completed reassembly that appended chunk 10 and chunk 2, 2 first.
C2_Witness ==
    /\ last.op = "CompleteChunk"
    /\ last.err = Nil
    /\ last.order = <<FormatInt(2), FormatInt(10)>>
    /\ CLen(last.fullFile.content) > 0

\* C3: after a successful CompleteChunk the destination file holds the
\* full contents of the temporary file.
C3_DestinationHoldsAccumulator ==
    (last.op = "CompleteChunk" /\ last.err = Nil)
        => /\ last.filename \in DOMAIN cwd
           /\ cwd[last.filename].kind = "file"
           /\ cwd[last.filename].data = last.fullFile.content

\* C4: CompleteChunk(uploadID, ...) lists only the staging directory of
\* uploadID.
C4_ListsOnlyStagingDir ==
    last.op = "CompleteChunk"
        => \A d \in SeqRange(last.listed) : Norm(d) = Norm(StagingDir(last.id))

\* C5: a ProcessChunk call that decodes its request and meets no I/O error
\* of the environment ends in success with
\* the chunk file in place at <chunk root>/<upload identifier>/<index>,
\* whether or not the staging directory existed before.
C5_StagingDirEnsured ==
    (last.op = "ProcessChunk" /\ last.parsed /\ last.fault = "none")
        => /\ last.err = Nil
           /\ NodeKind(root, StagingDir(last.id) \o <<FormatInt(last.number)>>)
                = "file"

\* C7: once StoreChunk has created the chunk file, and unless the
\* environment fails the copy, it returns success, and
\* the file holds exactly the first min(payload length, cap) bytes of the
\* payload: a longer payload is cut at the cap, a shorter one stored whole.
C7_StoreCapped ==
    (last.op = "ProcessChunk" /\ last.created /\ last.fault = "none")
        => LET stored == FileData(root, StagingDir(last.id)
                                          \o <<FormatInt(last.number)>>)
               want == IF CLen(last.payload) < maxChunkSize
                       THEN CLen(last.payload) ELSE maxChunkSize
           IN  /\ last.err = Nil
               /\ last.status = 200
               /\ CLen(stored) = want
               /\ CCat(stored, CDrop(last.payload, want)) = last.payload

\* A payload one byte over the cap was stored, cut at the cap.
C7_Witness ==
    /\ last.op = "ProcessChunk"
    /\ last.created
    /\ last.fault = "none"
    /\ CLen(last.payload) = maxChunkSize + 1
    /\ CLen(FileData(root, StagingDir(last.id) \o <<FormatInt(last.number)>>))
         = maxChunkSize

\* C8: after a successful CompleteChunk the staging directory of its
\* upload identifier does not exist.
C8_StagingDirGone ==
    (last.op = "CompleteChunk" /\ last.err = Nil)
        => NodeKind(root, StagingDir(last.id)) = "none"

\* A completion succeeded for an identifier whose staged chunks it read.
C8_Witness ==
    /\ last.op = "CompleteChunk"
    /\ last.err = Nil
    /\ last.id = Dot
    /\ last.order # <<>>
    /\ ~root.exists

\* C9: when reading a staged entry fails during reassembly (the entry is a
\* directory, or the environment fails the copy), CompleteChunk returns an
\* error and the chunk root, every staging directory and chunk file in it,
\* and the working directory with the destination file are unchanged.
C9_ReadFailureKeepsState ==
    [][(/\ CompleteStep
        /\ root.exists
        /\ last'.fault # "tempfile"
        /\ \/ last'.fault = "append"
           \/ \E n \in DOMAIN root.entries : root.entries[n].kind = "dir")
       => /\ last'.err # Nil
          /\ last'.status = 500
          /\ root' = root
          /\ cwd' = cwd]_vars

\* A reassembly failed on an entry while a staged chunk file exists.
C9_Witness ==
    /\ last.op = "CompleteChunk"
    /\ last.err.kind = "append"
    /\ last.filename \notin DOMAIN cwd
    /\ \E id \in UploadIDs : Staged(root, id) # {}

\* C10: a ProcessChunk for upload identifier A changes nothing below the
\* chunk root but the file <chunk root>/A/<index>, so the staged chunks of
\* every other identifier B are as they were, equal indices included.
C10_StoreIsolation ==
    [][ProcessStep =>
          LET path == StagingDir(last'.id) \o <<FormatInt(last'.number)>>
          IN  /\ \A B \in UploadIDs \ {last'.id} :
                     StagedFiles(root', B) = StagedFiles(root, B)
              /\ IF last'.created
                 THEN /\ NodeKind(root', path) = "file"
                      /\ root' = WriteFile(root, path, FileData(root', path))
                 ELSE root' = root]_vars

\* Two upload identifiers each hold a chunk of the same index, with
\* different contents.
C10_Witness ==
    /\ last.op = "ProcessChunk"
    /\ last.err = Nil
    /\ \E n \in Staged(root, <<"a">>) \cap Staged(root, Dot) :
           StagedFiles(root, <<"a">>)[n] # StagedFiles(root, Dot)[n]

\* C11: a CompleteChunk for upload identifier A, whether it returns success
\* or an error, leaves the staging directory of every other identifier B
\* in place with the same chunk files and the same contents.
C11_CompleteIsolation ==
    [][CompleteStep =>
          \A B \in UploadIDs \ {last'.id} :
              NodeKind(root, StagingDir(B)) = "dir"
                  => /\ NodeKind(root', StagingDir(B)) = "dir"
                     /\ StagedFiles(root', B) = StagedFiles(root, B)]_vars

\* C12: a ProcessChunk call whose request does not decode returns the
\* decoder's error, wrapped, and leaves the chunk root and the working
\* directory exactly as they were.
C12_DecodeFailureNoEffect ==
    [][(ProcessStep /\ ~last'.parsed)
          => /\ last'.err # Nil
             /\ last'.err.wrap = "failed to parse chunk"
             /\ last'.status = 500
             /\ root' = root
             /\ cwd' = cwd]_vars

\* A request with two parts exchanged was refused while the chunk root and
\* the working directory hold what earlier calls left.
C12_Witness ==
    /\ last.op = "ProcessChunk"
    /\ ~last.parsed
    /\ last.err.kind = "name_mismatch"
    /\ NumFiles(root) > 0
    /\ cwd # EmptyMap

\* C13: CompleteChunk deletes the staged chunks before it creates the
\* destination file: when creating or writing the destination fails it
\* returns an error and the staging directory of its identifier is gone,
\* and whenever it touched the destination the staging directory is gone.
C13_CleanupBeforeDestination ==
    [][CompleteStep =>
          /\ last'.err.kind \in {"create_dest", "copy_dest"}
                 => /\ last'.status = 500
                    /\ NodeKind(root, uploadDir) = "dir"
                    /\ NodeKind(root', StagingDir(last'.id)) = "none"
                    /\ \A id \in UploadIDs : Staged(root', id) = {}
          /\ cwd' # cwd => NodeKind(root', StagingDir(last'.id)) = "none"]_vars

\* The destination name is a directory of the working directory: creating
\* the file failed with no fault of the environment, after the staged
\* chunks were read and removed.
C13_Witness ==
    /\ last.op = "CompleteChunk"
    /\ last.err.kind = "create_dest"
    /\ last.fault = "none"
    /\ last.order # <<>>
    /\ ~root.exists

\* C14: a CompleteChunk for an identifier whose staging directory does not
\* exist returns a listing error, leaves the working directory with every
\* destination file as it was, and removes nothing.
C14_MissingStagingDir ==
    [][(CompleteStep /\ NodeKind(root, StagingDir(last'.id)) # "dir")
          => /\ last'.err.kind = "readdir"
             /\ root' = root
             /\ cwd' = cwd]_vars

\* C17: a successful store at an index whose chunk file exists replaces the
\* file: it holds the new payload up to the cap and nothing of what it held
\* before, and storing the chunk it already holds changes nothing.
C17_StoreReplaces ==
    [][LET path == StagingDir(last'.id) \o <<FormatInt(last'.number)>>
           want == CTake(last'.payload, maxChunkSize)
       IN  (/\ ProcessStep
            /\ last'.created
            /\ last'.err = Nil
            /\ NodeKind(root, path) = "file")
           => /\ FileData(root', path) = want
              /\ root' = WriteFile(root, path, want)
              /\ FileData(root, path) = want => (root' = root /\ cwd' = cwd)]_vars

\* A chunk file that held the cap's worth of bytes was stored again with a
\* one-byte payload and holds that byte alone.
C17_Witness ==
    /\ last.op = "ProcessChunk"
    /\ last.err = Nil
    /\ CLen(last.old) = maxChunkSize
    /\ CLen(last.payload) = 1
    /\ FileData(root, StagingDir(last.id) \o <<FormatInt(last.number)>>)
         = last.payload

\* C20: when CompleteChunk has returned, with success or with an error, no
\* handle to the temporary file is open.
C20_TempReleased ==
    last.op = "CompleteChunk" => ~last.fullFile.open

\* The form names of a request's parts, in arrival order.
NamesOf(req) == [i \in 1..Len(req.parts) |-> req.parts[i].name]

\* The six parts of a chunk request, each scalar field holding a value
\* that decodes, in an order other than the mandated one.
Misordered(req) ==
    /\ req.multipart
    /\ Len(req.parts) = 6
    /\ SeqRange(NamesOf(req)) = SeqRange(FieldOrder)
    /\ NamesOf(req) # FieldOrder
    /\ \A i \in 1..6 :
           /\ req.parts[i].name \in {"chunk_number", "total_chunks"}
                  => ParseInt32(req.parts[i].body).ok
           /\ req.parts[i].name = "total_file_size"
                  => ParseInt64(req.parts[i].body).ok

\* The first step of the decoder at which the part found is not the part
\* expected.
FirstMisplaced(req) ==
    CHOOSE k \in 1..6 :
        /\ NamesOf(req)[k] # FieldOrder[k]
        /\ \A j \in 1..(k - 1) : NamesOf(req)[j] = FieldOrder[j]

\* C6: decoding a chunk request whose six parts arrive in another order
\* than the mandated one fails with a name-mismatch error that carries the
\* field name expected at the step that failed and the name found there.
C6_OrderEnforced ==
    (last.op = "ParseChunk" /\ Misordered(input))
        => LET k == FirstMisplaced(input)
           IN  /\ last.err.kind = "name_mismatch"
               /\ last.err.field = FieldOrder[k]
               /\ last.err.got = input.parts[k].name
               /\ last.err.field # last.err.got
               /\ ~last.parsed

\* A request whose first four parts are in place and whose payload arrived
\* before file_name: the mismatch is reported at the fifth step.
C6_Witness ==
    /\ last.op = "ParseChunk"
    /\ Misordered(input)
    /\ last.err.kind = "name_mismatch"
    /\ last.err.field = "file_name"
    /\ last.err.got = ""

\* The name each step of the decoder reports for the field it is decoding.
StepName(k) == IF k = 6 THEN "chunk" ELSE FieldOrder[k]

\* A multipart body fails at step k of the decoder: the part is missing,
\* it carries another name than the step demands, or its text is no
\* integer of the width the step demands.
FailsAtStep(req, k) ==
    \/ Len(req.parts) < k
    \/ k <= 5 /\ req.parts[k].name # FieldOrder[k]
    \/ k \in {2, 3} /\ ~ParseInt32(req.parts[k].body).ok
    \/ k = 4 /\ ~ParseInt64(req.parts[k].body).ok

\* The first step at which the body req fails.
FirstFailingStep(req) ==
    CHOOSE k \in 1..6 :
        FailsAtStep(req, k) /\ \A j \in 1..(k - 1) : ~FailsAtStep(req, j)

\* C15: every decode failure on a multipart body (a missing part, a name
\* mismatch, a text that is no integer) is an error that carries the name
\* of the field that was being decoded at the failing step.
C15_FailureNamesField ==
    (last.op = "ParseChunk" /\ last.err # Nil /\ input.multipart)
        => last.err.field = StepName(FirstFailingStep(input))

\* A name that is no decimal integer: after an optional sign it is empty
\* or holds a character that is no digit.
Malformed(n) == Unsigned(n) = <<>> \/ ~AllDigits(Unsigned(n))

\* The chunk indices the properties range over, and the index a name is
\* the decimal form of.
Indices == -1..10

IsIndexName(n) == \E k \in Indices : FormatInt(k) = n

IndexOf(n) == CHOOSE k \in Indices : FormatInt(k) = n

\* C16 as stated: reassembly does not reject an entry whose name is no
\* decimal integer and appends it before every entry named by a chunk
\* index, whatever the index.
C16_MalformedSortsLowest ==
    [][CompleteStep =>
          \A m, w \in SeqRange(last'.order) :
              (Malformed(m) /\ IsIndexName(w))
                  => Pos(last'.order, m) < Pos(last'.order, w)]_vars

\* C16 amended: reassembly does not reject an entry whose name is no
\* decimal integer (with no fault of the environment every regular file of
\* the directory is appended) and sorts it as the value zero: it is
\* appended before every entry named by a chunk index greater than zero and
\* after every entry named by a negative chunk index.
C16_MalformedSortsAsZero ==
    [][CompleteStep =>
          /\ \A m, w \in SeqRange(last'.order) :
                 (Malformed(m) /\ IsIndexName(w))
                     => /\ IndexOf(w) > 0
                            => Pos(last'.order, m) < Pos(last'.order, w)
                        /\ IndexOf(w) < 0
                            => Pos(last'.order, w) < Pos(last'.order, m)
          /\ (/\ last'.fault = "none"
              /\ NodeKind(root, uploadDir) = "dir"
              /\ \A n \in DirNames(root, uploadDir) :
                     NodeKind(root, uploadDir \o <<n>>) = "file")
                 => SeqRange(last'.order) = DirNames(root, uploadDir)]_vars

\* A reassembly appended chunk -1, then the file named x, then chunk 2.
C16_Witness ==
    /\ last.op = "CompleteChunk"
    /\ last.err = Nil
    /\ {<<"-", "1">>, <<"x">>, <<"2">>} \subseteq SeqRange(last.order)
    /\ Pos(last.order, <<"-", "1">>) < Pos(last.order, <<"x">>)
    /\ Pos(last.order, <<"x">>) < Pos(last.order, <<"2">>)

\* The chunk file of the call p, and the bytes StoreChunk is to leave in it.
StorePath(p) ==
    StagingDir(procs[p].chunk.UploadID)
        \o <<FormatInt(procs[p].chunk.ChunkNumber)>>

StoreWant(p) == CTake(procs[p].chunk.Data, maxChunkSize)

\* The contents c hold a byte b.
HasByte(c, b) == \E i \in 1..Len(c) : c[i].b = b

\* The calls s1 and s2 store different chunk indices of one upload
\* identifier whose staging directory exists, and no completion runs.
TwoStores ==
    /\ procs["c"].pc = "start"
    /\ \A p \in Stores : procs[p].parsed
    /\ procs["s1"].chunk.UploadID = procs["s2"].chunk.UploadID
    /\ procs["s1"].chunk.ChunkNumber # procs["s2"].chunk.ChunkNumber
    /\ NodeKind(root, StagingDir(procs["s1"].chunk.UploadID)) = "dir"

\* C18: two concurrent stores of different chunk indices of one upload,
\* whose staging directory exists, do not disturb each other under any
\* interleaving: while a call copies, its chunk file holds exactly the
\* bytes of its own payload written so far, and when both have returned
\* both returned success and each chunk file holds its own payload, up to
\* the cap, with no byte of the other.
C18_ConcurrentStoresSafe ==
    TwoStores =>
        \A p \in Stores :
            /\ procs[p].pc = "copy"
                   => /\ NodeKind(root, StorePath(p)) = "file"
                      /\ FileData(root, StorePath(p))
                           = CTake(StoreWant(p), procs[p].off)
            /\ (\A q \in Stores : procs[q].pc = "done")
                   => /\ procs[p].err = Nil
                      /\ NodeKind(root, StorePath(p)) = "file"
                      /\ FileData(root, StorePath(p)) = StoreWant(p)
                      /\ \A q \in Stores \ {p} :
                             ~HasByte(FileData(root, StorePath(p)), ConcByte(q))

\* Both calls have returned, each after writing its two bytes to its own
\* chunk file of the upload a.
C18_Witness ==
    /\ TwoStores
    /\ \A p \in Stores :
           /\ procs[p].pc = "done"
           /\ procs[p].err = Nil
           /\ procs[p].chunk.UploadID = <<"a">>
           /\ CLen(procs[p].chunk.Data) = 2
           /\ FileData(root, StorePath(p)) = procs[p].chunk.Data

\* The call p stored a chunk of the upload the completion is for, both
\* returned success, and the completion's listing did not hold the chunk.
StoredLate(p) ==
    /\ procs["c"].pc = "done"
    /\ procs["c"].err = Nil
    /\ procs[p].pc = "done"
    /\ procs[p].parsed
    /\ procs[p].err = Nil
    /\ procs["c"].uploadID = procs[p].chunk.UploadID
    /\ FormatInt(procs[p].chunk.ChunkNumber) \notin SeqRange(procs["c"].infos)

\* C19: nothing keeps a StoreChunk out of the window between the listing
\* and the cleanup of a CompleteChunk for the same upload identifier, and
\* a chunk stored in that window is lost: whenever both calls returned
\* success and the listing did not hold the chunk, no byte of it is in the
\* destination file or the temporary file and no staging directory holds
\* it.
C19_LateChunkLost ==
    \A p \in Stores :
        StoredLate(p) =>
            /\ procs["c"].filename \in DOMAIN cwd
            /\ cwd[procs["c"].filename].kind = "file"
            /\ ~HasByte(cwd[procs["c"].filename].data, ConcByte(p))
            /\ ~HasByte(procs["c"].fullFile.content, ConcByte(p))
            /\ NodeKind(root, StorePath(p)) # "file"
            /\ \A id \in UploadIDs : \A n \in Staged(root, id) :
                   ~HasByte(StagedFiles(root, id)[n], ConcByte(p))

\* The interleaving: s1 stored its chunk after the completion had listed
\* the directory and returned success; the completion returned success
\* too, and the chunk root is gone.
C19_Witness ==
    /\ StoredLate("s1")
    /\ procs["s2"].pc = "start"
    /\ ~root.exists
    /\ cwd[procs["c"].filename].data = <<>>

=============================================================================
